---- MODULE Spec2Model ----
(***************************************************************************)
(* Model of src/index.js: a key service backed by two PostgreSQL tables    *)
(* (keys, logs), an HTTP verify endpoint, Discord slash commands (getkey,  *)
(* minhaskeys, revokekey) and a periodic sweep (cleanupExpiredKeys).       *)
(*                                                                         *)
(* Every handler is an async function: it runs until an `await` on a       *)
(* database statement, the statement executes atomically in the database,  *)
(* and the handler resumes later.  Handlers of different requests          *)
(* interleave at these points.  Each action below is one database          *)
(* statement together with the synchronous JavaScript that follows it, or  *)
(* a synchronous continuation that reads the clock.                        *)
(*                                                                         *)
(* Timestamps are in seconds (the code's millisecond values / 1000).       *)
(***************************************************************************)
EXTENDS Integers, Sequences, FiniteSets, TLC

\* ---- bounds of the model ----
NProcs == 2          \* concurrent request handlers
MaxKeys == 2         \* rows ever inserted into keys
MaxTicks == 2        \* clock ticks of one hour
MaxOps == 2          \* requests handled

\* ---- input domains ----
Procs == 1..NProcs
Ids == {"K1", "K2"}                 \* values generateKey can return
Users == {"u1", "u2"}               \* Discord user ids
Redeemers == {"r1", "r2"}           \* robloxName (robloxId is RobloxIdOf(name))
DurationInputs == {"1h"}     \* choices of the duracao option used here
NotesInputs == {"", "vip"}

HourSec == 3600
NullTime == -1                      \* SQL NULL in a TIMESTAMP column
NullText == "NULL"                  \* SQL NULL in a TEXT column

\* dbGet found no row (rows[0] is undefined); id 0 is never a SERIAL value
NoRow ==
  [id |-> 0, key |-> "", creator_id |-> "", creator_name |-> "",
   created_at |-> NullTime, expires_at |-> NullTime, duration |-> "",
   used |-> FALSE, user_roblox_name |-> NullText, user_roblox_id |-> NullText,
   used_at |-> NullTime, notes |-> ""]

Exists(row) == row.id # 0

VARIABLES now, keys, logs, pc, loc, resp, ops, inserted, issued, grants, sweptCount

vars == <<now, keys, logs, pc, loc, resp, ops, inserted, issued, grants, sweptCount>>

\* robloxId that goes with a robloxName
RobloxIdOf(r) == "id-" \o r

\* user.globalName || user.username
NameOf(u) == "name-" \o u

\* the switch on the duracao option: duration in seconds
DurationSec(d) ==
  CASE d = "1h" -> 60 * 60
    [] d = "24h" -> 24 * 60 * 60
    [] d = "7d" -> 7 * 24 * 60 * 60
    [] d = "30d" -> 30 * 24 * 60 * 60
    [] d = "perm" -> 365 * 24 * 60 * 60

DurationText(d) ==
  CASE d = "1h" -> "1 Hora"
    [] d = "24h" -> "24 Horas"
    [] d = "7d" -> "7 Dias"
    [] d = "30d" -> "30 Dias"
    [] d = "perm" -> "Permanente (1 Ano)"

Idle == [op |-> "none"]
NoResp == [proc |-> 0, op |-> "none", key |-> "", outcome |-> "none", id |-> 0, rows |-> <<>>]

Respond(p, o, k, out, i) ==
  [proc |-> p, op |-> o, key |-> k, outcome |-> out, id |-> i, rows |-> <<>>]

\* the entry with key and creator_id exchanged
LogEntrySwapped(action, k, creatorId, creatorName, userRoblox) ==
  [action |-> action, key |-> creatorId, creator_id |-> k,
   creator_name |-> creatorName, user_roblox_name |-> userRoblox]

\* INSERT INTO logs (action, key, creator_id, creator_name, user_roblox_name)
LogEntry(action, k, creatorId, creatorName, userRoblox) ==
  [action |-> action, key |-> k, creator_id |-> creatorId,
   creator_name |-> creatorName, user_roblox_name |-> userRoblox]

\* the entry put in front of the log
addLogPrepend(entry) == logs' = <<entry>> \o logs

addLog(entry) == logs' = Append(logs, entry)

\* what a getkey command was called with: user.id, duracao, notas
IssueArgs(u, d, n) == [user |-> u, duration |-> d, notes |-> n]

\* the row INSERT INTO keys stores (id SERIAL, created_at and used by default)
NewRow(l, serial, t) ==
  [id |-> serial, key |-> l.key, creator_id |-> l.user, creator_name |-> NameOf(l.user),
   created_at |-> t, expires_at |-> l.expiresAt, duration |-> DurationText(l.duration),
   used |-> FALSE, user_roblox_name |-> NullText, user_roblox_id |-> NullText,
   used_at |-> NullTime, notes |-> l.notes]

\* CREATE TABLE IF NOT EXISTS keeps the rows of an earlier run of the process:
\* the process starts on empty tables, or on tables that hold a key issued
\* earlier (by u1, for one hour, at time 0) with its CREATE entry.
StoredAtStart ==
  {[keys |-> [k \in Ids |-> NoRow], logs |-> <<>>, inserted |-> <<>>, issued |-> <<>>],
   [keys |-> [k \in Ids |->
                IF k = "K1"
                  THEN NewRow([key |-> "K1", user |-> "u1", duration |-> "1h", notes |-> "",
                               expiresAt |-> DurationSec("1h")], 1, 0)
                  ELSE NoRow],
    logs |-> <<LogEntry("CREATE", "K1", "u1", NameOf("u1"), NullText)>>,
    inserted |-> <<"K1">>,
    issued |-> <<IssueArgs("u1", "1h", "")>>]}

Init ==
  /\ now = 0
  /\ \E db \in StoredAtStart :
       /\ keys = db.keys
       /\ logs = db.logs
       /\ inserted = db.inserted
       /\ issued = db.issued
  /\ pc = [p \in Procs |-> "idle"]
  /\ loc = [p \in Procs |-> Idle]
  /\ resp = NoResp
  /\ ops = 0
  /\ grants = [i \in 1..MaxKeys |-> 0]
  /\ sweptCount = [i \in 1..MaxKeys |-> 0]

\* the clock advances
Tick ==
  /\ now < MaxTicks * HourSec
  /\ now' = now + HourSec
  /\ resp' = NoResp
  /\ UNCHANGED <<keys, logs, pc, loc, ops, inserted, issued, grants, sweptCount>>

\* a request is taken by the first handler slot that is free
Ready(p) == pc[p] = "idle" /\ ops < MaxOps /\ \A q \in 1..(p - 1) : pc[q] # "idle"

\* the handler of p sends its response r and ends; resp is the response sent by
\* the step just taken (NoResp when the step sent none)
Finish(p, r) ==
  /\ pc' = [pc EXCEPT ![p] = "idle"]
  /\ loc' = [loc EXCEPT ![p] = Idle]
  /\ resp' = r

Goto(p, label, l) ==
  /\ pc' = [pc EXCEPT ![p] = label]
  /\ loc' = [loc EXCEPT ![p] = l]
  /\ resp' = NoResp

\* ---------------- POST /api/verify ----------------

\* request arrives: validation of the body, then SELECT * FROM keys WHERE key = $1
VerifyStart(p, k, r) ==
  /\ Ready(p)
  /\ ops' = ops + 1
  /\ IF k = ""
       THEN Finish(p, Respond(p, "verify", k, "NoKey", 0))
       ELSE IF r = ""
         THEN Finish(p, Respond(p, "verify", k, "NoRoblox", 0))
         ELSE Goto(p, "V_check",
                   [op |-> "verify", key |-> k, robloxName |-> r,
                    keyData |-> keys[k], marked |-> FALSE])
  /\ UNCHANGED <<now, keys, logs, inserted, issued, grants, sweptCount>>

\* the expiry comparison the other way round
VerifyExpiredReversed(keyData, t) == keyData.expires_at > t

\* the expiry comparison with <= in place of <
VerifyExpiredInclusive(keyData, t) == keyData.expires_at <= t

\* new Date(keyData.expires_at) < new Date()
VerifyExpired(keyData, t) == keyData.expires_at < t

\* the handler resumes with keyData: the three checks before the UPDATE
VerifyCheck(p) ==
  /\ pc[p] = "V_check"
  /\ LET keyData == loc[p].keyData
         k == loc[p].key
     IN IF ~Exists(keyData)
          THEN Finish(p, Respond(p, "verify", k, "NotFound", 0))
          ELSE IF keyData.used
            THEN Finish(p, Respond(p, "verify", k, "AlreadyUsed", keyData.id))
            ELSE IF VerifyExpired(keyData, now)
              THEN Finish(p, Respond(p, "verify", k, "Expired", keyData.id))
              ELSE Goto(p, "V_update", loc[p])
  /\ UNCHANGED <<ops, now, keys, logs, inserted, issued, grants, sweptCount>>

\* the UPDATE without used_at = NOW()
MarkUsedNoStamp(ks, k, r, t) ==
  IF Exists(ks[k])
    THEN [ks EXCEPT ![k] = [@ EXCEPT !.used = TRUE, !.user_roblox_name = r,
                                      !.user_roblox_id = RobloxIdOf(r)]]
    ELSE ks

\* UPDATE keys SET used = true, user_roblox_name, user_roblox_id, used_at = NOW() WHERE key = $3
MarkUsed(ks, k, r, t) ==
  IF Exists(ks[k])
    THEN [ks EXCEPT ![k] = [@ EXCEPT !.used = TRUE, !.user_roblox_name = r,
                                      !.user_roblox_id = RobloxIdOf(r), !.used_at = t]]
    ELSE ks

VerifyUpdate(p) ==
  /\ pc[p] = "V_update"
  /\ keys' = MarkUsed(keys, loc[p].key, loc[p].robloxName, now)
  /\ Goto(p, "V_log", [loc[p] EXCEPT !.marked = Exists(keys[loc[p].key])])
  /\ UNCHANGED <<ops, now, logs, inserted, issued, grants, sweptCount>>

\* outcome of the handler once the UPDATE is done and addLog has settled:
\* a rejected addLog lands in the catch block
VerifyOutcome(logOk) == IF logOk THEN "granted" ELSE "error"

\* await addLog('VERIFY', ...) and the response
VerifyLog(p) ==
  /\ pc[p] = "V_log"
  /\ \E logOk \in BOOLEAN :
       LET keyData == loc[p].keyData
           out == VerifyOutcome(logOk)
       IN /\ IF logOk
               THEN addLog(LogEntry("VERIFY", loc[p].key, keyData.creator_id,
                                    keyData.creator_name, loc[p].robloxName))
               ELSE UNCHANGED logs
          /\ Finish(p, Respond(p, "verify", loc[p].key, out, keyData.id))
          /\ grants' = IF out = "granted"
                         THEN [grants EXCEPT ![keyData.id] = @ + 1]
                         ELSE grants
  /\ UNCHANGED <<ops, now, keys, inserted, issued, sweptCount>>

\* ---------------- /getkey ----------------

\* generateKey() and new Date(Date.now() + durationMs), before the INSERT is sent
IssueStart(p, u, d, n) ==
  /\ Ready(p)
  /\ ops' = ops + 1
  /\ Len(inserted) + Cardinality({q \in Procs : pc[q] = "I_insert"}) < MaxKeys
  /\ \E k \in Ids :
       Goto(p, "I_insert",
            [op |-> "getkey", key |-> k, user |-> u, duration |-> d, notes |-> n,
             expiresAt |-> now + DurationSec(d), serial |-> 0])
  /\ UNCHANGED <<now, keys, logs, inserted, issued, grants, sweptCount>>

\* key TEXT UNIQUE: the INSERT is rejected when a stored row has the same key
UniqueViolation(ks, k) == Exists(ks[k])

IssueInsert(p) ==
  /\ pc[p] = "I_insert"
  /\ IF UniqueViolation(keys, loc[p].key)
       THEN /\ Finish(p, Respond(p, "getkey", loc[p].key, "error", 0))
            /\ UNCHANGED <<keys, inserted, issued>>
       ELSE /\ keys' = [keys EXCEPT ![loc[p].key] = NewRow(loc[p], Len(inserted) + 1, now)]
            /\ inserted' = Append(inserted, loc[p].key)
            /\ issued' = Append(issued, IssueArgs(loc[p].user, loc[p].duration, loc[p].notes))
            /\ Goto(p, "I_log", [loc[p] EXCEPT !.serial = Len(inserted) + 1])
  /\ UNCHANGED <<ops, now, logs, grants, sweptCount>>

\* await addLog('CREATE', ...) and the reply
IssueLog(p) ==
  /\ pc[p] = "I_log"
  /\ \E logOk \in BOOLEAN :
       IF logOk
         THEN /\ addLog(LogEntry("CREATE", loc[p].key, loc[p].user, NameOf(loc[p].user), NullText))
              /\ Finish(p, Respond(p, "getkey", loc[p].key, "issued", loc[p].serial))
         ELSE /\ UNCHANGED logs
              /\ Finish(p, Respond(p, "getkey", loc[p].key, "error", 0))
  /\ UNCHANGED <<ops, now, keys, inserted, issued, grants, sweptCount>>

\* ---------------- /revokekey ----------------

\* the ownership check left out
NotOwnerUnchecked(keyData, u) == FALSE

\* keyData.creator_id !== user.id
NotOwner(keyData, u) == keyData.creator_id # u

\* SELECT * FROM keys WHERE key = $1, then the two checks before the DELETE
RevokeStart(p, u, k) ==
  /\ Ready(p)
  /\ ops' = ops + 1
  /\ LET keyData == keys[k]
     IN IF ~Exists(keyData)
          THEN Finish(p, Respond(p, "revokekey", k, "NotFound", 0))
          ELSE IF NotOwner(keyData, u)
            THEN Finish(p, Respond(p, "revokekey", k, "NotOwned", keyData.id))
            ELSE Goto(p, "R_delete",
                      [op |-> "revokekey", key |-> k, user |-> u,
                       keyData |-> keyData, deleted |-> FALSE])
  /\ UNCHANGED <<now, keys, logs, inserted, issued, grants, sweptCount>>

\* DELETE FROM keys WHERE key = $1
DeleteKey(ks, k) == [ks EXCEPT ![k] = NoRow]

RevokeDelete(p) ==
  /\ pc[p] = "R_delete"
  /\ keys' = DeleteKey(keys, loc[p].key)
  /\ Goto(p, "R_log", [loc[p] EXCEPT !.deleted = Exists(keys[loc[p].key])])
  /\ UNCHANGED <<ops, now, logs, inserted, issued, grants, sweptCount>>

\* await addLog('REVOKE', ...) and the reply
RevokeLog(p) ==
  /\ pc[p] = "R_log"
  /\ \E logOk \in BOOLEAN :
       IF logOk
         THEN /\ addLog(LogEntry("REVOKE", loc[p].key, loc[p].user, NameOf(loc[p].user), NullText))
              /\ Finish(p, Respond(p, "revokekey", loc[p].key, "revoked", loc[p].keyData.id))
         ELSE /\ UNCHANGED logs
              /\ Finish(p, Respond(p, "revokekey", loc[p].key, "error", loc[p].keyData.id))
  /\ UNCHANGED <<ops, now, keys, inserted, issued, grants, sweptCount>>

\* ---------------- /minhaskeys ----------------

\* the filter with AND used = false added
MineFilterUnused(row, u, t) == row.creator_id = u /\ row.expires_at > t /\ row.used = FALSE

\* WHERE creator_id = $1 AND expires_at > NOW()
MineFilter(row, u, t) == row.creator_id = u /\ row.expires_at > t

\* ORDER BY created_at DESC (rows created at the same instant come in any order)
OrderedDesc(rows) == \A i, j \in 1..Len(rows) : i < j => rows[i].created_at >= rows[j].created_at

RowsOf(ks) == {ks[k] : k \in {x \in Ids : Exists(ks[x])}}

Listings(S) ==
  {rows \in [1..Cardinality(S) -> S] :
     /\ \A i, j \in 1..Cardinality(S) : i # j => rows[i] # rows[j]
     /\ OrderedDesc(rows)}

ListMine(p, u) ==
  /\ Ready(p)
  /\ ops' = ops + 1
  /\ \E rows \in Listings({row \in RowsOf(keys) : MineFilter(row, u, now)}) :
       Finish(p, [proc |-> p, op |-> "minhaskeys", key |-> u, outcome |-> "listed", id |-> 0, rows |-> rows])
  /\ UNCHANGED <<now, keys, logs, inserted, issued, grants, sweptCount>>

\* ---------------- /checkkey: the status shown ----------------

\* the expiry test of the status the other way round
CheckStatusReversed(keyData, t) ==
  IF keyData.used THEN "Usada" ELSE IF keyData.expires_at > t THEN "Expirada" ELSE "Valida"

\* status = keyData.used ? Usada : expired ? Expirada : Valida, expired = expires_at < new Date()
CheckStatus(keyData, t) ==
  IF keyData.used THEN "Usada" ELSE IF keyData.expires_at < t THEN "Expirada" ELSE "Valida"

\* SELECT * FROM keys WHERE key = $1
StatusStart(p, k) ==
  /\ Ready(p)
  /\ ops' = ops + 1
  /\ Goto(p, "S_reply", [op |-> "checkkey", key |-> k, keyData |-> keys[k]])
  /\ UNCHANGED <<now, keys, logs, inserted, issued, grants, sweptCount>>

\* the handler resumes with keyData: not found, or the embed with the status and
\* the stored fields of the row
StatusReply(p) ==
  /\ pc[p] = "S_reply"
  /\ LET keyData == loc[p].keyData
     IN IF ~Exists(keyData)
          THEN Finish(p, Respond(p, "checkkey", loc[p].key, "NotFound", 0))
          ELSE Finish(p, [proc |-> p, op |-> "checkkey", key |-> loc[p].key,
                          outcome |-> CheckStatus(keyData, now), id |-> keyData.id,
                          rows |-> <<keyData>>])
  /\ UNCHANGED <<ops, now, keys, logs, inserted, issued, grants, sweptCount>>

\* ---------------- GET /api/stats ----------------

\* the rows of the keys table, by identifier
StoredKeys(ks) == {k \in Ids : Exists(ks[k])}

\* WHERE used = true
StatsUsedFilter(row) == row.used

\* the valid filter without used = false
StatsValidFilterAnyUsed(row, t) == row.expires_at > t

\* WHERE used = false AND expires_at > NOW()
StatsValidFilter(row, t) == row.used = FALSE /\ row.expires_at > t

\* WHERE expires_at < NOW()
StatsExpiredFilter(row, t) == row.expires_at < t

\* request arrives: the first count query. insertedBefore remembers how many
\* INSERTs had been done when the handler started counting.
StatsTotal(p) ==
  /\ Ready(p)
  /\ ops' = ops + 1
  /\ Goto(p, "T_used", [op |-> "stats", total |-> Cardinality(StoredKeys(keys)),
                        insertedBefore |-> Len(inserted)])
  /\ UNCHANGED <<now, keys, logs, inserted, issued, grants, sweptCount>>

StatsUsed(p) ==
  /\ pc[p] = "T_used"
  /\ Goto(p, "T_valid", [op |-> "stats", total |-> loc[p].total,
                         used |-> Cardinality({k \in StoredKeys(keys) : StatsUsedFilter(keys[k])}),
                         insertedBefore |-> loc[p].insertedBefore])
  /\ UNCHANGED <<ops, now, keys, logs, inserted, issued, grants, sweptCount>>

StatsValid(p) ==
  /\ pc[p] = "T_valid"
  /\ Goto(p, "T_expired",
          [op |-> "stats", total |-> loc[p].total, used |-> loc[p].used,
           valid |-> Cardinality({k \in StoredKeys(keys) : StatsValidFilter(keys[k], now)}),
           insertedBefore |-> loc[p].insertedBefore])
  /\ UNCHANGED <<ops, now, keys, logs, inserted, issued, grants, sweptCount>>

\* the last count query and res.json({total, used, valid, expired})
StatsExpired(p) ==
  /\ pc[p] = "T_expired"
  /\ Finish(p, [proc |-> p, op |-> "stats", key |-> "", outcome |-> "ok", id |-> 0,
                rows |-> <<loc[p].total, loc[p].used, loc[p].valid,
                           Cardinality({k \in StoredKeys(keys) :
                                          StatsExpiredFilter(keys[k], now)})>>])
  /\ UNCHANGED <<ops, now, keys, logs, inserted, issued, grants, sweptCount>>

\* ---------------- the sweep (setInterval) ----------------

\* the filter without AND used = false
SweepFilterAnyExpired(row, t) == row.expires_at < t

\* WHERE expires_at < NOW() AND used = false
SweepFilter(row, t) == row.expires_at < t /\ row.used = FALSE

cleanupExpiredKeys ==
  /\ keys' = [k \in Ids |-> IF Exists(keys[k]) /\ SweepFilter(keys[k], now) THEN NoRow ELSE keys[k]]
  /\ sweptCount' = [i \in 1..MaxKeys |->
                      IF \E k \in Ids : keys[k].id = i /\ SweepFilter(keys[k], now)
                        THEN sweptCount[i] + 1 ELSE sweptCount[i]]
  /\ resp' = NoResp
  /\ UNCHANGED <<now, logs, pc, loc, ops, inserted, issued, grants>>

Next ==
  \/ Tick
  \/ \E p \in Procs, k \in Ids \cup {""}, r \in Redeemers \cup {""} : VerifyStart(p, k, r)
  \/ \E p \in Procs : VerifyCheck(p)
  \/ \E p \in Procs : VerifyUpdate(p)
  \/ \E p \in Procs : VerifyLog(p)
  \/ \E p \in Procs, u \in Users, d \in DurationInputs, n \in NotesInputs : IssueStart(p, u, d, n)
  \/ \E p \in Procs : IssueInsert(p)
  \/ \E p \in Procs : IssueLog(p)
  \/ \E p \in Procs, u \in Users, k \in Ids : RevokeStart(p, u, k)
  \/ \E p \in Procs : RevokeDelete(p)
  \/ \E p \in Procs : RevokeLog(p)
  \/ \E p \in Procs, u \in Users : ListMine(p, u)
  \/ \E p \in Procs, k \in Ids : StatusStart(p, k)
  \/ \E p \in Procs : StatusReply(p)
  \/ \E p \in Procs : StatsTotal(p)
  \/ \E p \in Procs : StatsUsed(p)
  \/ \E p \in Procs : StatsValid(p)
  \/ \E p \in Procs : StatsExpired(p)
  \/ cleanupExpiredKeys

Spec == Init /\ [][Next]_vars

\* ======================= claims =======================

\* C1: for one key, at most one verify call returns granted; every other call
\* that finds the key returns "already used".
C1_AtMostOneGrant == \A i \in 1..MaxKeys : grants[i] <= 1

\* C2: every stored key with used = true has used_at <= expires_at.
C2_ConsumedByExpiry ==
  \A k \in Ids : (Exists(keys[k]) /\ keys[k].used) => keys[k].used_at <= keys[k].expires_at

\* C3: a verify call that found a stored, unconsumed key whose expiry has
\* elapsed answers Expired, grants nothing and changes neither the keys nor
\* the audit log.
C3_ExpiredVerify ==
  [][\A p \in Procs :
       /\ (pc[p] = "idle" /\ pc'[p] = "V_check") => (keys' = keys /\ logs' = logs)
       /\ (/\ pc[p] = "V_check" /\ pc'[p] # "V_check"
           /\ Exists(loc[p].keyData) /\ ~loc[p].keyData.used
           /\ loc[p].keyData.expires_at < now)
          => /\ resp'.proc = p /\ resp'.op = "verify" /\ resp'.outcome = "Expired"
             /\ pc'[p] = "idle"
             /\ keys' = keys /\ logs' = logs /\ grants' = grants]_vars

C3_Witness ==
  /\ resp.op = "verify" /\ resp.outcome = "Expired"
  /\ Exists(keys[resp.key]) /\ keys[resp.key].id = resp.id
  /\ ~keys[resp.key].used /\ keys[resp.key].expires_at < now

\* C4: a revoke by the creator that found the key consumed answers
\* AlreadyConsumed: it never goes on to the DELETE and the REVOKE entry.
C4_RevokeConsumedRefused ==
  \A p \in Procs : pc[p] \in {"R_delete", "R_log"} => ~loc[p].keyData.used

\* C5: a revoke by someone other than the creator answers NotOwned and leaves
\* the keys and the audit log as they were, so a key that was Active still is.
C5_RevokeNotOwned ==
  [][\A p \in Procs, u \in Users, k \in Ids :
       (RevokeStart(p, u, k) /\ Exists(keys[k]) /\ keys[k].creator_id # u)
       => /\ resp'.proc = p /\ resp'.op = "revokekey" /\ resp'.outcome = "NotOwned"
          /\ pc'[p] = "idle"
          /\ keys' = keys /\ logs' = logs
          /\ CheckStatus(keys'[k], now') = CheckStatus(keys[k], now)]_vars

C5_Witness ==
  /\ resp.op = "revokekey" /\ resp.outcome = "NotOwned"
  /\ Exists(keys[resp.key]) /\ keys[resp.key].id = resp.id
  /\ CheckStatus(keys[resp.key], now) = "Valida"

\* C6: a sweep run deletes exactly the stored keys that are unconsumed and past
\* expiry when it runs, and no key row is deleted by more than one sweep run.
C6_SweepExact ==
  [][/\ \A i \in 1..MaxKeys : sweptCount'[i] <= 1
     /\ cleanupExpiredKeys =>
          \A k \in Ids :
            (Exists(keys[k]) /\ ~Exists(keys'[k]))
              <=> (Exists(keys[k]) /\ ~keys[k].used /\ keys[k].expires_at < now)]_vars

\* a sweep has deleted one key and left a consumed, expired key in place
C6_Witness ==
  /\ \E i \in 1..MaxKeys : sweptCount[i] = 1
  /\ \E k \in Ids : Exists(keys[k]) /\ keys[k].used /\ keys[k].expires_at < now

\* C7: once a key row has used = true, no step removes that row.
C7_ConsumedRetained ==
  [][\A k \in Ids :
       (Exists(keys[k]) /\ keys[k].used)
         => (Exists(keys'[k]) /\ keys'[k].id = keys[k].id)]_vars

C9_IdentifierNeverReused ==
  \A i, j \in 1..Len(inserted) : i # j => inserted[i] # inserted[j]

\* C10: a verify that has marked the key consumed answers granted, also when
\* writing the VERIFY entry fails.
C10_GrantDespiteLogFailure ==
  [][\A p \in Procs :
       (pc[p] = "V_log" /\ pc'[p] = "idle" /\ loc[p].marked)
         => resp'.outcome = "granted"]_vars

\* C11: once a key row has used = true, used stays true and the redeemer
\* fields and used_at of that row never change again.
C11_ConsumedOnce ==
  [][\A k \in Ids :
       (Exists(keys[k]) /\ keys[k].used /\ keys'[k].id = keys[k].id)
         => /\ keys'[k].used
            /\ keys'[k].user_roblox_name = keys[k].user_roblox_name
            /\ keys'[k].user_roblox_id = keys[k].user_roblox_id
            /\ keys'[k].used_at = keys[k].used_at]_vars

\* C12: for every stored key, used_at is set exactly when used is true, and so
\* are user_roblox_name and user_roblox_id.
C12_StampIffConsumed ==
  \A k \in Ids :
    Exists(keys[k]) =>
      /\ (keys[k].used_at # NullTime) <=> keys[k].used
      /\ (keys[k].user_roblox_name # NullText) <=> keys[k].used
      /\ (keys[k].user_roblox_id # NullText) <=> keys[k].used

\* a consumed key and an unconsumed key are stored together
C12_Witness ==
  /\ \E k \in Ids : Exists(keys[k]) /\ keys[k].used /\ keys[k].used_at # NullTime
  /\ \E k \in Ids : Exists(keys[k]) /\ ~keys[k].used /\ keys[k].used_at = NullTime

\* C13: a status asked at the instant a key was issued, the key unconsumed,
\* reports it valid with the creator, duration label and notes that issue was
\* called with; status changes neither the keys nor the audit log.
C13_IssueThenStatus ==
  [][\A p \in Procs :
       /\ ((pc[p] = "idle" /\ pc'[p] = "S_reply") \/ (pc[p] = "S_reply" /\ pc'[p] = "idle"))
            => (keys' = keys /\ logs' = logs)
       /\ (/\ pc[p] = "S_reply" /\ pc'[p] = "idle"
           /\ Exists(loc[p].keyData) /\ ~loc[p].keyData.used
           /\ loc[p].keyData.expires_at
                = now + DurationSec(issued[loc[p].keyData.id].duration))
          => LET args == issued[loc[p].keyData.id]
             IN /\ resp'.proc = p /\ resp'.op = "checkkey" /\ resp'.outcome = "Valida"
                /\ resp'.rows[1].key = loc[p].key
                /\ resp'.rows[1].creator_id = args.user
                /\ resp'.rows[1].creator_name = NameOf(args.user)
                /\ resp'.rows[1].duration = DurationText(args.duration)
                /\ resp'.rows[1].notes = args.notes]_vars

\* a status reply for a key issued with notes at this instant
C13_Witness ==
  /\ resp.op = "checkkey" /\ resp.outcome = "Valida"
  /\ resp.rows[1].notes = "vip"
  /\ resp.rows[1].created_at = now
  /\ resp.rows[1].expires_at = now + HourSec
  /\ keys[resp.key] = resp.rows[1]

\* C14: when a verify call answers granted, the key row is stored with
\* used = true and the redeemer of that call.
C14_GrantedRowConsumed ==
  [][\A p \in Procs :
       (pc[p] = "V_log" /\ pc'[p] = "idle" /\ resp'.outcome = "granted")
         => /\ Exists(keys'[loc[p].key])
            /\ keys'[loc[p].key].id = loc[p].keyData.id
            /\ keys'[loc[p].key].used
            /\ keys'[loc[p].key].user_roblox_name = loc[p].robloxName
            /\ keys'[loc[p].key].user_roblox_id = RobloxIdOf(loc[p].robloxName)]_vars

\* C15 (as stated): a verify evaluated at now = expires_at on an unconsumed key
\* answers Expired.
C15_ExpiredAtExpiry ==
  [][\A p \in Procs :
       (/\ pc[p] = "V_check" /\ pc'[p] # "V_check"
        /\ Exists(loc[p].keyData) /\ ~loc[p].keyData.used
        /\ loc[p].keyData.expires_at = now)
         => resp'.outcome = "Expired"]_vars

\* C15 (amended): verify answers Expired exactly when expires_at is strictly
\* less than the current time; at now = expires_at an unconsumed key passes the
\* expiry check and goes on to the UPDATE.
C15_ExpiredOnlyPastExpiry ==
  [][\A p \in Procs :
       (/\ pc[p] = "V_check" /\ pc'[p] # "V_check"
        /\ Exists(loc[p].keyData) /\ ~loc[p].keyData.used)
         => /\ (resp'.proc = p /\ resp'.outcome = "Expired") <=> loc[p].keyData.expires_at < now
            /\ pc'[p] = "V_update" <=> loc[p].keyData.expires_at >= now]_vars

\* a verify is about to consume a key at the instant of its expiry
C15_Witness ==
  \E p \in Procs :
    /\ pc[p] = "V_update"
    /\ loc[p].keyData.expires_at = now
    /\ loc[p].keyData.created_at < now

\* C16: an issue whose identifier collides with a stored one does not fail: it
\* regenerates the identifier and retries the insert.
C16_CollisionRetried ==
  [][\A p \in Procs :
       (pc[p] = "I_insert" /\ pc'[p] # "I_insert" /\ Exists(keys[loc[p].key]))
         => ~(resp'.proc = p /\ resp'.outcome = "error")]_vars

\* C17: a revoke call whose DELETE removed no row writes no REVOKE entry and
\* does not report success.
C17_RevokeOnlyIfDeleted ==
  [][\A p \in Procs :
       (pc[p] = "R_log" /\ pc'[p] = "idle" /\ ~loc[p].deleted)
         => (logs' = logs /\ resp'.outcome # "revoked")]_vars

\* C18: the audit log is append-only: every step leaves the entries already
\* present unchanged and in place, and changes the log only by appending one
\* entry.
C18_LogAppendOnly ==
  [][\/ logs' = logs
     \/ /\ Len(logs') = Len(logs) + 1
        /\ SubSeq(logs', 1, Len(logs)) = logs]_vars

\* entries of three operations have been appended one after the other
C18_Witness ==
  /\ Len(logs) >= 3
  /\ logs[1].action = "CREATE"
  /\ \E i \in 2..Len(logs) : logs[i].action = "VERIFY"
  /\ \E i \in 2..Len(logs) : logs[i].action = "REVOKE"

\* C19 (as stated): every VERIFY or REVOKE entry of the audit log is preceded
\* by a CREATE entry for the same identifier.
C19_CreateFirst ==
  \A i \in 1..Len(logs) :
    logs[i].action \in {"VERIFY", "REVOKE"}
      => \E j \in 1..(i - 1) : logs[j].action = "CREATE" /\ logs[j].key = logs[i].key

\* C19 (amended): every VERIFY or REVOKE entry is for an identifier that had
\* been inserted into keys before the entry was written; its CREATE entry may
\* come later in the log, or be missing.
C19_InsertFirst ==
  \A i \in 1..Len(logs) :
    logs[i].action \in {"VERIFY", "REVOKE"}
      => \E j \in 1..Len(inserted) : inserted[j] = logs[i].key

\* a VERIFY or REVOKE entry written ahead of the CREATE entry of its key
C19_Witness ==
  \E i \in 1..Len(logs) :
    /\ logs[i].action \in {"VERIFY", "REVOKE"}
    /\ \A j \in 1..(i - 1) : ~(logs[j].action = "CREATE" /\ logs[j].key = logs[i].key)
    /\ \E j \in (i + 1)..Len(logs) : logs[j].action = "CREATE" /\ logs[j].key = logs[i].key

\* C20 (as stated): every stats result has used + valid <= total and
\* expired <= total.
C20_StatsConsistent ==
  resp.op = "stats"
    => /\ resp.rows[2] + resp.rows[3] <= resp.rows[1]
       /\ resp.rows[4] <= resp.rows[1]

\* C20 (amended): in every stats result used + valid and expired exceed total
\* by at most the number of keys inserted between the first count query and
\* the last; verify, revoke and sweep between the queries add nothing.
C20_StatsWithinInserts ==
  [][\A p \in Procs :
       (pc[p] = "T_expired" /\ pc'[p] = "idle")
         => LET during == Len(inserted) - loc[p].insertedBefore
            IN /\ resp'.op = "stats"
               /\ resp'.rows[1] = loc[p].total
               /\ resp'.rows[2] + resp'.rows[3] <= resp'.rows[1] + during
               /\ resp'.rows[4] <= resp'.rows[1] + during]_vars

\* a stats result whose queries were interleaved with a revoke or a verify of
\* the only key ever inserted: the key is counted in total, and then neither as
\* used nor as valid although it has not expired
C20_Witness ==
  /\ resp.op = "stats"
  /\ now = 0
  /\ Len(inserted) = 1
  /\ resp.rows = <<1, 0, 0, 0>>
====
